---------------------------- MODULE Spec2Model ----------------------------
(***************************************************************************)
(* A model of tinysequencer.js: the constructor's curve compiler (cutoff,  *)
(* the note loop, this.duration) and the playback closures play, stop,     *)
(* isPlaying and currentTime together with the Web Audio nodes they drive. *)
(*                                                                         *)
(* Numbers.  A JavaScript number is modelled as an exact extended          *)
(* rational [n, d] in lowest terms with d >= 0:  d > 0 is the finite value *)
(* n/d, [1,0] is Infinity, [-1,0] is -Infinity and [0,0] is NaN.           *)
(* Floating-point rounding is not modelled, and zero is unsigned: the      *)
(* inputs drawn below never divide by a zero that IEEE would sign          *)
(* negatively.                                                             *)
(***************************************************************************)
EXTENDS Integers, Sequences, FiniteSets, TLC

\* F applied to the value of v, which is computed once
With(v, F(_)) == CHOOSE r \in {F(x) : x \in {v}} : TRUE

---------------------------------------------------------------------------
(* Extended rational arithmetic (the semantics of +, -, *, /, >=,          *)
(* Math.max and Math.min on JavaScript numbers).                           *)

Abs(x) == IF x < 0 THEN -x ELSE x

Sign(x) == IF x < 0 THEN -1 ELSE IF x > 0 THEN 1 ELSE 0

RECURSIVE Gcd(_, _)
Gcd(a, b) == IF b = 0 THEN a ELSE With(a % b, LAMBDA r : Gcd(b, r))

Rat(n, d) ==
    With(<<n, d>>, LAMBDA a :
        IF a[2] = 0 THEN [n |-> Sign(a[1]), d |-> 0]
        ELSE With(Gcd(Abs(a[1]), Abs(a[2])), LAMBDA g :
                [n |-> Sign(a[2]) * Sign(a[1]) * (Abs(a[1]) \div g),
                 d |-> Abs(a[2]) \div g]))

Num(k) == [n |-> k, d |-> 1]

Zero == Num(0)

One == Num(1)

Infinity == [n |-> 1, d |-> 0]

NaN == [n |-> 0, d |-> 0]

IsNaN(x) == x.d = 0 /\ x.n = 0

IsFinite(x) == x.d > 0

Neg(x) == [n |-> -x.n, d |-> x.d]

Plus(x, y) ==
    IF IsNaN(x) \/ IsNaN(y) THEN NaN
    ELSE IF x.d = 0 /\ y.d = 0 THEN (IF x.n = y.n THEN x ELSE NaN)
    ELSE IF x.d = 0 THEN x
    ELSE IF y.d = 0 THEN y
    ELSE With(Gcd(x.d, y.d), LAMBDA g :
            Rat(x.n * (y.d \div g) + y.n * (x.d \div g), (x.d \div g) * y.d))

Add(x, y) == With(<<x, y>>, LAMBDA a : Plus(a[1], a[2]))

Sub(x, y) == Add(x, Neg(y))

Times(x, y) ==
    IF IsNaN(x) \/ IsNaN(y) THEN NaN
    ELSE IF x.d = 0 \/ y.d = 0
         THEN (IF x.n = 0 \/ y.n = 0 THEN NaN
               ELSE [n |-> Sign(x.n) * Sign(y.n), d |-> 0])
    ELSE With(<<Gcd(Abs(x.n), y.d), Gcd(Abs(y.n), x.d)>>, LAMBDA g :
            Rat((x.n \div g[1]) * (y.n \div g[2]),
                (x.d \div g[2]) * (y.d \div g[1])))

Mul(x, y) == With(<<x, y>>, LAMBDA a : Times(a[1], a[2]))

Inv(x) ==
    With(x, LAMBDA a :
        IF IsNaN(a) THEN NaN
        ELSE IF a.d = 0 THEN Zero
        ELSE IF a.n = 0 THEN Infinity
        ELSE [n |-> Sign(a.n) * a.d, d |-> Abs(a.n)])

Div(x, y) == Mul(x, Inv(y))

\* x < y; false when either is NaN
Less(x, y) ==
    IF IsNaN(x) \/ IsNaN(y) THEN FALSE
    ELSE IF x.d = 0 /\ y.d = 0 THEN x.n < y.n
    ELSE With(Gcd(x.d, y.d), LAMBDA g :
            x.n * (y.d \div g) < y.n * (x.d \div g))

Lt(x, y) == With(<<x, y>>, LAMBDA a : Less(a[1], a[2]))

\* x >= y; false when either is NaN
Ge(x, y) ==
    With(<<x, y>>, LAMBDA a : ~IsNaN(a[1]) /\ ~IsNaN(a[2]) /\ ~Less(a[1], a[2]))

Gt(x, y) == Lt(y, x)

Le(x, y) == Ge(y, x)

\* Math.max(x, y) and Math.min(x, y)
Max(x, y) ==
    With(<<x, y>>, LAMBDA a :
        IF IsNaN(a[1]) \/ IsNaN(a[2]) THEN NaN
        ELSE IF Less(a[1], a[2]) THEN a[2] ELSE a[1])

Min(x, y) ==
    With(<<x, y>>, LAMBDA a :
        IF IsNaN(a[1]) \/ IsNaN(a[2]) THEN NaN
        ELSE IF Less(a[2], a[1]) THEN a[2] ELSE a[1])

\* The literal 1e-6 of the overlap cutoff and of the ramp floor
Eps == Rat(1, 1000000)

---------------------------------------------------------------------------
(* The curve compiler.  A curve point is <<time, value, ramp>>.            *)

\* curve.findIndex(p => p[0] >= t), 1-based; 0 when no point qualifies
RECURSIVE findIndex(_, _, _)
findIndex(curve, t, k) ==
    IF k > Len(curve) THEN 0
    ELSE IF Ge(curve[k][1], t) THEN k
    ELSE findIndex(curve, t, k + 1)

\* A variant of cutFraction that measures from p1 back to p0 (sensitivity
\* of C14)
cutFractionSwapped(p0, p1, t) ==
    IF p1[3]
    THEN Max(Zero, Min(One, Div(Sub(t, p1[1]), Sub(p0[1], p1[1]))))
    ELSE Zero

\* The interpolation factor of cutoff: where t lies between p0 and p1 when
\* p1 is a ramp, clamped to [0, 1]; 0 when p1 is a step
cutFraction(p0, p1, t) ==
    IF p1[3]
    THEN Max(Zero, Min(One, Div(Sub(t, p0[1]), Sub(p1[1], p0[1]))))
    ELSE Zero

\* A variant of cutAt whose pushed point is always a ramp (sensitivity of
\* C12)
cutAtRamp(curve, t, i) ==
    IF i = 0 THEN curve
    ELSE IF i = 1 THEN <<>>
    ELSE With(cutFraction(curve[i - 1], curve[i], t),
              LAMBDA x :
                Append(SubSeq(curve, 1, i - 1),
                       <<t,
                         Add(Mul(curve[i - 1][2], Sub(One, x)), Mul(curve[i][2], x)),
                         TRUE>>))

\* A variant of cutAt without the test i >= 0: splice(-1) removes the
\* last point (sensitivity of C13)
cutAtUnguarded(curve, t, i) ==
    IF i = 0 THEN SubSeq(curve, 1, Len(curve) - 1)
    ELSE IF i = 1 THEN <<>>
    ELSE With(cutFraction(curve[i - 1], curve[i], t),
              LAMBDA x :
                Append(SubSeq(curve, 1, i - 1),
                       <<t,
                         Add(Mul(curve[i - 1][2], Sub(One, x)), Mul(curve[i][2], x)),
                         curve[i][3]>>))

\* curve.splice(i) and the push of the interpolated point, for the index i
\* that findIndex returned
cutAt(curve, t, i) ==
    IF i = 0 THEN curve
    ELSE IF i = 1 THEN <<>>
    ELSE With(cutFraction(curve[i - 1], curve[i], t),
              LAMBDA x :
                Append(SubSeq(curve, 1, i - 1),
                       <<t,
                         Add(Mul(curve[i - 1][2], Sub(One, x)), Mul(curve[i][2], x)),
                         curve[i][3]>>))

\* Cut curve at time t and interpolate a new point at the end
cutoff(curve, t) ==
    With(<<curve, t>>, LAMBDA a : cutAt(a[1], a[2], findIndex(a[1], a[2], 1)))

---------------------------------------------------------------------------
(* The constructor: one pass over data.tracks, one pass over each track's  *)
(* notes.                                                                  *)

\* A variant of noteCount that rounds up (sensitivity of C6)
noteCountCeil(noteData) == (Len(noteData) + 3) \div 4

\* Math.floor((noteData.length + .5) / 4)
noteCount(noteData) == (2 * Len(noteData) + 1) \div 8

\* data.bpm * data.ppqn / 60
pps(data) == Div(Mul(Num(data.bpm), Num(data.ppqn)), Num(60))

RECURSIVE Pow2(_)
Pow2(k) == IF k = 0 THEN 1 ELSE 2 * Pow2(k - 1)

\* noteData[j] (0-based): a read past the end of a JavaScript array is
\* undefined, which arithmetic turns into NaN
at(noteData, j) ==
    IF j + 1 \in DOMAIN noteData THEN Num(noteData[j + 1]) ELSE NaN

\* 2 ** ((midi - 69) / 12) * 440.  The value is rational only for the
\* octaves of A4, which are the MIDI numbers the inputs use.
frequency(midi) ==
    IF ~IsFinite(midi) THEN NaN
    ELSE LET k == (midi.n - 69) \div 12
         IN  IF k >= 0 THEN Num(440 * Pow2(k)) ELSE Rat(440, Pow2(-k))

\* 1 - (1 - velocity / 127) * mixer[1]
noteVolume(velocity, mixer) ==
    Sub(One, Mul(Sub(One, Div(velocity, Num(127))), mixer[2]))

\* The state the note loop carries: the running time, both curves, the
\* notes so far and this.duration
LoopStart(data, dur) ==
    [time |-> data.gaps[1], gCurve |-> <<>>, fCurve |-> <<>>, notes |-> <<>>,
     duration |-> dur]

\* A variant of cutOverlap whose ramp point is not held at time 0
\* (sensitivity of C20)
cutOverlapUnclamped(track, gCurve, i, time) ==
    IF i > 0
    THEN Append(cutoff(gCurve, Sub(time, Max(track.cutoffDuration, Eps))),
                <<Sub(time, Div(Eps, Num(2))), Zero, TRUE>>)
    ELSE gCurve

\* A variant of cutOverlap that leaves the earlier notes' points in place
\* (sensitivity of C16)
cutOverlapKeep(track, gCurve, i, time) ==
    IF i > 0
    THEN Append(gCurve, <<Max(Zero, Sub(time, Div(Eps, Num(2)))), Zero, TRUE>>)
    ELSE gCurve

\* A variant of cutOverlap that places the ramp point half of 1e-6 after
\* the note's start (sensitivity of C15)
cutOverlapLate(track, gCurve, i, time) ==
    IF i > 0
    THEN Append(cutoff(gCurve, Sub(time, Max(track.cutoffDuration, Eps))),
                <<Max(Zero, Add(time, Div(Eps, Num(2)))), Zero, TRUE>>)
    ELSE gCurve

\* The gain curve after the overlap cutoff of note i (i > 0 only)
cutOverlap(track, gCurve, i, time) ==
    IF i > 0
    THEN Append(cutoff(gCurve, Sub(time, Max(track.cutoffDuration, Eps))),
                <<Max(Zero, Sub(time, Div(Eps, Num(2)))), Zero, TRUE>>)
    ELSE gCurve

\* The attack, decay and sustain points of one note and its open hold at
\* Infinity appended to gCurve: the curve the note's cutoff is given
held(adsr, gCurve, time, volume) ==
    LET g1 == IF Gt(adsr[1], Zero)
              THEN Append(gCurve, <<time, Zero, FALSE>>)
              ELSE gCurve
        g2 == IF Gt(adsr[2], Zero)
              THEN Append(g1, <<Add(time, adsr[1]), volume, Gt(adsr[1], Zero)>>)
              ELSE g1
        g3 == Append(g2, <<Add(Add(time, adsr[1]), adsr[2]),
                           Mul(adsr[3], volume),
                           Gt(Add(adsr[1], adsr[2]), Zero)>>)
    IN  Append(g3, <<Infinity, Mul(adsr[3], volume), FALSE>>)

\* A variant of envelope without the cutoff at the note's end (sensitivity
\* of C10)
envelopeUncut(adsr, gCurve, time, duration, volume) ==
    Append(held(adsr, gCurve, time, volume),
           <<Add(Add(time, duration), adsr[4]), Zero, TRUE>>)

\* The ADSR envelope of one note appended to gCurve
envelope(adsr, gCurve, time, duration, volume) ==
    Append(cutoff(held(adsr, gCurve, time, volume), Add(time, duration)),
           <<Add(Add(time, duration), adsr[4]), Zero, TRUE>>)

\* A variant of freqEnvelope without the hold point before a slide
\* (sensitivity of C17)
freqEnvelopeNoHold(track, fCurve, notes, time, freq, slide) ==
    Append(fCurve, <<time, freq, slide>>)

\* The frequency envelope of one note appended to fCurve
freqEnvelope(track, fCurve, notes, time, freq, slide) ==
    LET last == notes[Len(notes)]
        f1   == IF slide
                THEN Append(fCurve,
                            <<Sub(time, Mul(Sub(time, last.time), track.portamento)),
                              last.frequency, FALSE>>)
                ELSE fCurve
    IN  Append(f1, <<time, freq, slide>>)

\* A variant of readNote that reads the duration from the third quarter
\* and the MIDI number from the second (sensitivity of C11)
readNoteSwapped(data, track, time0, i) ==
    With(<<noteCount(track.data), pps(data)>>,
         LAMBDA c :
            [time      |-> Add(time0, Div(at(track.data, i), c[2])),
             duration  |-> Div(at(track.data, i + c[1] * 2), c[2]),
             midi      |-> at(track.data, i + c[1]),
             volume    |-> noteVolume(at(track.data, i + c[1] * 3), track.mixer),
             frequency |-> frequency(at(track.data, i + c[1])),
             slide     |-> i > 0 /\ Gt(track.portamento, Zero)])

\* The values read for note i (0-based as in the source): time, duration,
\* midi, volume, frequency, slide
readNote(data, track, time0, i) ==
    With(<<noteCount(track.data), pps(data)>>,
         LAMBDA c :
            [time      |-> Add(time0, Div(at(track.data, i), c[2])),
             duration  |-> Div(at(track.data, i + c[1]), c[2]),
             midi      |-> at(track.data, i + c[1] * 2),
             volume    |-> noteVolume(at(track.data, i + c[1] * 3), track.mixer),
             frequency |-> frequency(at(track.data, i + c[1] * 2)),
             slide     |-> i > 0 /\ Gt(track.portamento, Zero)])

\* A variant of noteStep in which the last note sets this.duration
\* (sensitivity of C9)
noteStepLast(data, track, acc, i) ==
    With(readNote(data, track, acc.time, i),
         LAMBDA note :
            [time     |-> note.time,
             gCurve   |-> envelope(track.adsr,
                                   cutOverlap(track, acc.gCurve, i, note.time),
                                   note.time, note.duration, note.volume),
             fCurve   |-> freqEnvelope(track, acc.fCurve, acc.notes, note.time,
                                       note.frequency, note.slide),
             notes    |-> Append(acc.notes,
                                 [time |-> note.time, duration |-> note.duration,
                                  midi |-> note.midi, frequency |-> note.frequency,
                                  volume |-> note.volume]),
             duration |-> Add(Add(Add(note.time, note.duration), track.adsr[4]),
                              data.gaps[2])])

\* One iteration of the note loop, for note i
noteStep(data, track, acc, i) ==
    With(readNote(data, track, acc.time, i),
         LAMBDA note :
            [time     |-> note.time,
             gCurve   |-> envelope(track.adsr,
                                   cutOverlap(track, acc.gCurve, i, note.time),
                                   note.time, note.duration, note.volume),
             fCurve   |-> freqEnvelope(track, acc.fCurve, acc.notes, note.time,
                                       note.frequency, note.slide),
             notes    |-> Append(acc.notes,
                                 [time |-> note.time, duration |-> note.duration,
                                  midi |-> note.midi, frequency |-> note.frequency,
                                  volume |-> note.volume]),
             duration |-> Max(acc.duration,
                              Add(Add(Add(note.time, note.duration), track.adsr[4]),
                                  data.gaps[2]))])

\* The loop state after the first k notes of a track
RECURSIVE noteLoop(_, _, _, _)
noteLoop(data, track, dur, k) ==
    IF k = 0 THEN LoopStart(data, dur)
    ELSE With(noteLoop(data, track, dur, k - 1),
              LAMBDA acc : noteStep(data, track, acc, k - 1))

\* The callback of data.tracks.map: the compiled track and this.duration
\* after it.  source and adsr are the node handles play() assigns later
\* (0 is undefined).
compileTrack(data, track, dur) ==
    With(noteLoop(data, track, dur, noteCount(track.data)),
         LAMBDA acc :
            [track    |-> [wave |-> track.wave, gCurve |-> acc.gCurve,
                           fCurve |-> acc.fCurve, notes |-> acc.notes,
                           source |-> 0, adsr |-> 0],
             duration |-> acc.duration])

\* this.tracks and this.duration after the first k tracks
RECURSIVE compileTracks(_, _)
compileTracks(data, k) ==
    IF k = 0 THEN [tracks |-> <<>>, duration |-> Zero]
    ELSE With(compileTracks(data, k - 1),
              LAMBDA prev :
                With(compileTrack(data, data.tracks[k], prev.duration),
                     LAMBDA c : [tracks |-> Append(prev.tracks, c.track),
                                 duration |-> c.duration]))

\* new TinySequencer(ac, data, destNode)
construct(data) == compileTracks(data, Len(data.tracks))

---------------------------------------------------------------------------
(* Playback.  The closures play, stop, isPlaying and currentTime act on a  *)
(* machine record m:                                                       *)
(*   startTime, tracks, duration  the sequencer's own state;               *)
(*   sources[t], amps[t]          every source node and every ADSR gain    *)
(*                                node created for track t, in order of    *)
(*                                creation (tracks[t].source and           *)
(*                                tracks[t].adsr index into them);         *)
(*   now                          ac.currentTime;                          *)
(*   calls, err                   the backend calls the running call has   *)
(*                                issued and the error it has raised.      *)
(* Calls on nodes that exist are accepted by the backend in stop(); in     *)
(* play() the backend may reject one call (fail names the track and the    *)
(* stage), which play() does not catch.                                    *)

\* JavaScript null; also the absent onended handler
NULL == [null |-> TRUE]

\* null - x coerces null to 0
ToNumber(x) == IF x = NULL THEN Zero ELSE x

Called(m, names) == [m EXCEPT !.calls = @ \o names]

Throw(m, e) == [m EXCEPT !.err = e]

NoFail == [track |-> 0, stage |-> "none"]

\* A variant of stopTrack that leaves the onended handler attached
\* (sensitivity of C4)
stopTrackAttached(m, t) ==
    LET s == m.tracks[t].source
        a == m.tracks[t].adsr
    IN  IF s = 0 THEN Throw(m, "TypeError")
        ELSE LET m1 == [m EXCEPT !.sources[t][s].halted = TRUE,
                                  !.sources[t][s].connected = FALSE,
                                  !.calls = @ \o <<"source.stop", "source.disconnect">>]
             IN  IF a = 0 THEN Throw(m1, "TypeError")
                 ELSE [m1 EXCEPT !.amps[t][a].connected = FALSE,
                                 !.calls = Append(@, "adsr.disconnect")]

\* The body of stop()'s this.tracks.map for track t.  Reading a property
\* of an undefined track.source or track.adsr is a TypeError.
stopTrack(m, t) ==
    LET s == m.tracks[t].source
        a == m.tracks[t].adsr
    IN  IF s = 0 THEN Throw(m, "TypeError")
        ELSE LET m1 == [m EXCEPT !.sources[t][s].onended = NULL,
                                  !.sources[t][s].halted = TRUE,
                                  !.sources[t][s].connected = FALSE,
                                  !.calls = @ \o <<"source.stop", "source.disconnect">>]
             IN  IF a = 0 THEN Throw(m1, "TypeError")
                 ELSE [m1 EXCEPT !.amps[t][a].connected = FALSE,
                                 !.calls = Append(@, "adsr.disconnect")]

RECURSIVE stopTracks(_, _)
stopTracks(m, t) ==
    IF t > Len(m.tracks) THEN m
    ELSE With(stopTrack(m, t),
              LAMBDA m1 : IF m1.err # "none" THEN m1 ELSE stopTracks(m1, t + 1))

\* A variant of stop without the startTime guard (sensitivity of C1)
stopUnguarded(m) ==
    With(m, LAMBDA m0 : stopTracks([m0 EXCEPT !.startTime = NULL], 1))

\* this.stop
stop(m) ==
    With(m, LAMBDA m0 :
            IF m0.startTime # NULL
            THEN stopTracks([m0 EXCEPT !.startTime = NULL], 1)
            ELSE m0)

\* One automation call for curve point p: linearRampToValueAtTime with the
\* 1e-6 floor when p is a ramp, setValueAtTime otherwise
event(p, volume, time) ==
    [ramp  |-> p[3],
     value |-> IF p[3] THEN Max(Eps, Mul(p[2], volume)) ELSE Mul(p[2], volume),
     at    |-> Add(time, p[1])]

schedule(curve, volume, time) ==
    [k \in 1..Len(curve) |-> event(curve[k], volume, time)]

scheduleCalls(curve) ==
    [k \in 1..Len(curve) |->
        IF curve[k][3] THEN "linearRampToValueAtTime" ELSE "setValueAtTime"]

\* The body of play()'s this.tracks.map for track t; h = [loop, volume,
\* time] is what the onended closure captures.  stage names the backend
\* call that is rejected ("none": every call is accepted).
playTrack(m, t, h, stage) ==
    LET track == m.tracks[t]
        noise == track.wave = "noise"
        s     == Len(m.sources[t]) + 1
        a     == Len(m.amps[t]) + 1
        src   == [kind |-> IF noise THEN "buffer" ELSE "oscillator",
                  events |-> IF noise THEN <<>>
                             ELSE schedule(track.fCurve, One, h.time),
                  connected |-> FALSE, started |-> FALSE, startAt |-> NULL,
                  stopAt |-> NULL, halted |-> FALSE, onended |-> NULL,
                  ended |-> FALSE]
        amp   == [connected |-> TRUE,
                  events |-> schedule(track.gCurve, h.volume, h.time)]
        m1    == [Called(m, IF noise THEN <<"createBuffer", "createBufferSource">>
                            ELSE <<"createOscillator">> \o scheduleCalls(track.fCurve))
                    EXCEPT !.sources[t] = Append(@, src),
                           !.tracks[t].source = s]
        m2    == [Called(m1, <<"createGain", "adsr.connect">>)
                    EXCEPT !.amps[t] = Append(@, amp),
                           !.tracks[t].adsr = a]
        m3    == [Called(m2, scheduleCalls(track.gCurve) \o <<"source.connect">>)
                    EXCEPT !.sources[t][s].connected = TRUE]
        m4    == [Called(m3, <<"source.start">>)
                    EXCEPT !.sources[t][s].started = TRUE,
                           !.sources[t][s].startAt = h.time]
        m5    == [Called(m4, <<"source.stop(t)">>)
                    EXCEPT !.sources[t][s].stopAt = Add(h.time, m.duration)]
    IN  CASE stage = "create"     ->
               Throw(Called(m, <<IF noise THEN "createBuffer"
                                 ELSE "createOscillator">>), "BackendError")
          [] stage = "createGain" -> Throw(Called(m1, <<"createGain">>), "BackendError")
          [] stage = "schedule"   ->
               Throw([Called(m2, <<scheduleCalls(track.gCurve)[1]>>)
                        EXCEPT !.amps[t][a].events = <<>>], "BackendError")
          [] stage = "start"      -> Throw(Called(m3, <<"source.start">>), "BackendError")
          [] stage = "stopAt"     -> Throw(Called(m4, <<"source.stop(t)">>), "BackendError")
          [] OTHER                ->
               IF t = 1 THEN [m5 EXCEPT !.sources[t][s].onended = h] ELSE m5

\* A variant of playTracks that uses up the gain curve of a track as it
\* schedules it (sensitivity of C19)
RECURSIVE playTracksDrain(_, _, _, _)
playTracksDrain(m, t, h, fail) ==
    IF t > Len(m.tracks) THEN m
    ELSE With(playTrack(m, t, h, IF fail.track = t THEN fail.stage ELSE "none"),
              LAMBDA m1 :
                IF m1.err # "none" THEN m1
                ELSE playTracksDrain([m1 EXCEPT !.tracks[t].gCurve = <<>>],
                                     t + 1, h, fail))

\* A variant of playTracks that installs the onended handler on the
\* source of every track (sensitivity of C18)
RECURSIVE playTracksAll(_, _, _, _)
playTracksAll(m, t, h, fail) ==
    IF t > Len(m.tracks) THEN m
    ELSE With(playTrack(m, t, h, IF fail.track = t THEN fail.stage ELSE "none"),
              LAMBDA m1 :
                IF m1.err # "none" THEN m1
                ELSE playTracksAll(
                        [m1 EXCEPT !.sources[t][m1.tracks[t].source].onended = h],
                        t + 1, h, fail))

RECURSIVE playTracks(_, _, _, _)
playTracks(m, t, h, fail) ==
    IF t > Len(m.tracks) THEN m
    ELSE With(playTrack(m, t, h, IF fail.track = t THEN fail.stage ELSE "none"),
              LAMBDA m1 :
                IF m1.err # "none" THEN m1 ELSE playTracks(m1, t + 1, h, fail))

\* A variant of play that does not call stop() first (sensitivity of C2)
playOver(m, loop, volume, time, fail) ==
    With(<<m, IF time = NULL THEN m.now ELSE time>>,
         LAMBDA a :
            playTracks([a[1] EXCEPT !.startTime = a[2]], 1,
                       [loop |-> loop, volume |-> volume, time |-> a[2]],
                       fail))

\* this.play
play(m, loop, volume, time, fail) ==
    With(<<stop(m), IF time = NULL THEN m.now ELSE time>>,
         LAMBDA a :
            IF a[1].err # "none" THEN a[1]
            ELSE playTracks([a[1] EXCEPT !.startTime = a[2]], 1,
                            [loop |-> loop, volume |-> volume, time |-> a[2]],
                            fail))

\* A variant of onended that re-plays at the current time (sensitivity of
\* C3)
onendedNow(m, h, fail) ==
    With(stop(m),
         LAMBDA m0 :
            IF m0.err # "none" THEN m0
            ELSE IF h.loop
                 THEN play(m0, TRUE, h.volume, NULL, fail)
                 ELSE m0)

\* A variant of onended that calls stop() only before a re-play
\* (sensitivity of C5)
onendedLoopOnly(m, h, fail) ==
    IF h.loop
    THEN With(stop(m),
              LAMBDA m0 :
                IF m0.err # "none" THEN m0
                ELSE play(m0, TRUE, h.volume, Add(h.time, m0.duration), fail))
    ELSE m

\* The onended closure of the reference track's source
onended(m, h, fail) ==
    With(stop(m),
         LAMBDA m0 :
            IF m0.err # "none" THEN m0
            ELSE IF h.loop
                 THEN play(m0, TRUE, h.volume, Add(h.time, m0.duration), fail)
                 ELSE m0)

\* this.isPlaying
isPlaying(m) == m.startTime # NULL

\* A variant of currentTime that returns the backend clock (sensitivity
\* of C8)
currentTimeClock(m) == m.now

\* this.currentTime
currentTime(m) == Sub(m.now, ToNumber(m.startTime))

---------------------------------------------------------------------------
(* Inputs.                                                                 *)

MaxNotes == 2

MaxTime == 4

MaxPlays == 3

MaxOps == 2

Track(wave, mixer1, adsr, portamento, cutoffDuration, noteData) ==
    [wave |-> wave, mixer |-> <<One, mixer1, Zero, Zero, Zero>>, adsr |-> adsr,
     portamento |-> portamento, cutoffDuration |-> cutoffDuration,
     data |-> noteData]

Sequence(bpm, ppqn, gaps, trackSpecs) ==
    [bpm |-> bpm, ppqn |-> ppqn, gaps |-> gaps, tracks |-> trackSpecs]

\* Notes as (pulses since the previous note, duration in pulses, MIDI
\* number, velocity)
NoteKinds == {<<0, 2, 69, 127>>, <<1, 0, 57, 64>>, <<2, 1, 81, 127>>, <<1, 3, 69, 0>>}

\* track.data of a list of notes: the four quarters, aligned by type
Quarters(notes) ==
    [j \in 1..(4 * Len(notes)) |->
        notes[((j - 1) % Len(notes)) + 1][((j - 1) \div Len(notes)) + 1]]

NoteLists == UNION {[1..k -> NoteKinds] : k \in 0..MaxNotes}

NoteDatas == {IF Len(ns) = 0 THEN <<>> ELSE Quarters(ns) : ns \in NoteLists}

\* Seconds per time step of the inputs: 1 for the tempo 60/1 (one pulse a
\* second), 1e-6 for the tempo 60000000/1 (one pulse a microsecond, the
\* scale of the source's 1e-6)
Tempos == {<<60, 1>>, <<60000000, 1>>}

Step(tempo) == Div(One, Div(Num(tempo[1] * tempo[2]), Num(60)))

Adsrs(u) ==
    {<<Zero, Zero, One, Zero>>,
     <<Zero, Zero, Rat(1, 2), u>>,
     <<u, Zero, One, Zero>>,
     <<Zero, Mul(Num(2), u), Rat(1, 2), u>>,
     <<u, u, Rat(1, 2), Mul(Num(2), u)>>}

Portamentos == {Zero, Rat(1, 2), One}

CutoffDurations(u) == {Zero, Div(u, Num(2)), Mul(Num(2), u)}

GapPairs(u) == {<<Zero, Zero>>, <<u, Div(u, Num(2))>>}

\* One-track sequences over the whole parameter space
SoloInputs ==
    {Sequence(tempo[1], tempo[2], gaps,
              <<Track("sine", Rat(1, 2), adsr, portamento, cd, noteData)>>) :
        <<tempo, gaps, adsr, portamento, cd, noteData>> \in
            UNION {{tempo} \X GapPairs(Step(tempo)) \X Adsrs(Step(tempo))
                   \X Portamentos \X CutoffDurations(Step(tempo)) \X NoteDatas :
                   tempo \in Tempos}}

\* Sequences of several tracks (and of none) at one pulse a second
Solo(release, noteData) ==
    Track("sine", Zero, <<Zero, Zero, One, release>>, Zero, Zero, noteData)

Noise(release, noteData) ==
    Track("noise", Zero, <<Zero, Zero, One, release>>, Zero, Zero, noteData)

BandInputs ==
    {Sequence(60, 1, <<Zero, Zero>>, trackSpecs) :
        trackSpecs \in
            {<<>>,
             <<Solo(Zero, <<0, 1, 69, 127>>)>>,
             <<Solo(One, <<0, 0, 69, 127>>), Noise(Zero, <<1, 1, 57, 127>>)>>}}

\* Inputs the documented data format excludes: a data array whose length
\* is not a multiple of four, a tempo that is not positive
OddDatas ==
    {<<0, 4, 69>>, <<0, 4, 69, 127, 9>>, <<0, 1, 4, 4, 69, 57>>,
     <<0, 1, 4, 4, 69, 57, 127>>, <<0, 1, 4, 4, 69, 57, 127, 127, 9>>}

MalformedInputs ==
    {Sequence(60, 1, <<Zero, Zero>>, <<Solo(Zero, noteData)>>) :
        noteData \in OddDatas}
    \cup {Sequence(tempo[1], tempo[2], <<Zero, Zero>>,
                   <<Solo(Zero, <<0, 1, 4, 4, 69, 57, 127, 127>>)>>) :
            tempo \in {<<0, 1>>, <<60, 0>>, <<-60, 1>>, <<60, -1>>}}

\* The input is outside the documented format: a tempo that is not
\* positive, or a data array whose length is not a multiple of four
Malformed(d) ==
    \/ d.bpm <= 0
    \/ d.ppqn <= 0
    \/ \E t \in 1..Len(d.tracks) : Len(d.tracks[t].data) % 4 # 0

\* One note of four pulses at one pulse a second, full velocity, a flat
\* envelope
ExampleInput ==
    Sequence(60, 1, <<Zero, Zero>>, <<Solo(Zero, <<0, 4, 69, 127>>)>>)

\* One-track sequences of two notes that start together, the second of
\* duration 0
ChordInputs ==
    {Sequence(60, 1, gaps,
              <<Track("sine", Rat(1, 2), adsr, Rat(1, 2), cd, noteData)>>) :
        <<gaps, adsr, cd, noteData>> \in
            GapPairs(One) \X Adsrs(One) \X CutoffDurations(One)
            \X {<<0, 0, 0, 0, 69, 57, 127, 64>>, <<0, 0, 2, 0, 69, 57, 127, 64>>}}

CompileInputs ==
    SoloInputs \cup ChordInputs \cup BandInputs \cup MalformedInputs
    \cup {ExampleInput}

\* The calls of cutoff the constructor makes for note i (0-based) of a
\* track, as <<curve, t>>: the overlap cutoff when i > 0, and the cutoff at
\* the note's end
noteCalls(d, track, i) ==
    With(noteLoop(d, track, Zero, i),
         LAMBDA acc :
            With(readNote(d, track, acc.time, i),
                 LAMBDA note :
                    (IF i > 0
                     THEN {<<acc.gCurve,
                             Sub(note.time, Max(track.cutoffDuration, Eps))>>}
                     ELSE {})
                    \cup {<<held(track.adsr,
                                 cutOverlap(track, acc.gCurve, i, note.time),
                                 note.time, note.volume),
                            Add(note.time, note.duration)>>}))

\* Every call of cutoff the constructor makes on the one-track inputs
ProgramCalls ==
    UNION {UNION {noteCalls(d, d.tracks[1], i) :
                    i \in 0..(noteCount(d.tracks[1].data) - 1)} :
           d \in SoloInputs \cup ChordInputs}

MaxPoints == 2

PointTimes == {Zero, One, Num(2), Infinity}

Points == PointTimes \X {Zero, One} \X BOOLEAN

\* The points of a curve are in order of time
Ordered(c) == \A k \in 1..(Len(c) - 1) : Le(c[k][1], c[k + 1][1])

\* Time-ordered curves of a few points, and the times they are cut at
SmallCalls ==
    {c \in UNION {[1..k -> Points] : k \in 0..MaxPoints} : Ordered(c)}
    \X {Zero, Rat(1, 2), One, Num(2), Num(3)}

CutoffCalls == ProgramCalls \cup SmallCalls

---------------------------------------------------------------------------
(* State.                                                                  *)

VARIABLES
    data,       \* the sequence the constructor is given
    built,      \* whether the constructor has run
    tracks,     \* this.tracks
    duration,   \* this.duration
    startTime,  \* the closure variable startTime
    now,        \* ac.currentTime
    sources,    \* the source nodes created so far, per track
    amps,       \* the ADSR gain nodes created so far, per track
    calls,      \* backend calls issued by the last call into the sequencer
    err,        \* the error the last call raised, "none" if it returned
    ret,        \* what currentTime() has just returned, null otherwise
    op,         \* the last call into the sequencer
    pre,        \* isPlaying() just before that call
    plays,      \* how many times play() has run
    userOps,    \* how many times the user has called play() or stop()
    faulted,    \* whether the backend has rejected a call
    iter,       \* the iteration of the current playback: 1 after the user's
                \* play(), one more each time onended re-plays
    manual,     \* loop, volume and start time of the user's last play()
    lastUser,   \* the user's last call: "none", "play" or "stop"
    curve,      \* the array a call of cutoff is given, as it is now
    cutT,       \* the time that call is given
    orig        \* <<the array as it was before the call>>, <<>> before it

vars == <<data, built, tracks, duration, startTime, now, sources, amps, calls,
          err, ret, op, pre, plays, userOps, faulted, iter, manual, lastUser,
          curve, cutT, orig>>

\* The variables of a call of cutoff, which the sequencer's methods leave
\* alone
cutVars == <<curve, cutT, orig>>

\* The machine the closures see at the start of a call
M == [startTime |-> startTime, tracks |-> tracks, duration |-> duration,
      sources |-> sources, amps |-> amps, now |-> now,
      calls |-> <<>>, err |-> "none"]

\* The machine after a call becomes the state
Becomes(m) ==
    /\ startTime' = m.startTime
    /\ tracks' = m.tracks
    /\ sources' = m.sources
    /\ amps' = m.amps
    /\ calls' = m.calls
    /\ err' = m.err
    /\ pre' = isPlaying(M)

\* Before the constructor runs, for an input of the given set
Unbuilt(inputs) ==
    /\ data \in inputs
    /\ built = FALSE
    /\ tracks = <<>>
    /\ duration = Zero
    /\ startTime = NULL
    /\ now = Zero
    /\ sources = <<>>
    /\ amps = <<>>
    /\ calls = <<>>
    /\ err = "none"
    /\ ret = NULL
    /\ op = "none"
    /\ pre = FALSE
    /\ plays = 0
    /\ userOps = 0
    /\ faulted = FALSE
    /\ iter = 0
    /\ manual = NULL
    /\ lastUser = "none"

InitWith(inputs) ==
    /\ Unbuilt(inputs)
    /\ curve = <<>>
    /\ cutT = Zero
    /\ orig = <<>>

Init == InitWith(BandInputs)

InitCompile == InitWith(CompileInputs)

\* A call of cutoff about to be made
InitCutoff ==
    /\ Unbuilt({ExampleInput})
    /\ \E c \in CutoffCalls : curve = c[1] /\ cutT = c[2]
    /\ orig = <<>>

---------------------------------------------------------------------------
(* Actions.                                                                *)

\* new TinySequencer(ac, data, destNode): the code has no throw statement
\* and no check of its input.  The track's output chain (the mixer gain
\* and the three filters it creates and connects) is fixed from here on
\* and is not part of the state; the backend accepts its creation.
Construct ==
    /\ ~built
    /\ built' = TRUE
    /\ \E c \in {construct(data)} :
           /\ tracks' = c.tracks
           /\ duration' = c.duration
           /\ sources' = [t \in 1..Len(c.tracks) |-> <<>>]
           /\ amps' = [t \in 1..Len(c.tracks) |-> <<>>]
    /\ calls' = <<>>
    /\ err' = "none"
    /\ op' = "construct"
    /\ UNCHANGED <<cutVars, data, startTime, now, ret, pre, plays, userOps, faulted, iter,
                   manual, lastUser>>

\* The stages of play() at which the backend can reject a call for a track
Stages(track) ==
    {"create", "createGain", "start", "stopAt"}
    \cup (IF Len(track.gCurve) > 0 THEN {"schedule"} ELSE {})

Fails ==
    {NoFail} \cup
    (IF ~faulted
     THEN {[track |-> t, stage |-> st] : <<t, st>> \in
             UNION {{t} \X Stages(tracks[t]) : t \in 1..Len(tracks)}}
     ELSE {})

\* sequencer.play(loop, volume, time) called by the user
UserPlay(loop, volume, time, fail) ==
    \E m \in {play(M, loop, volume, time, fail)} :
        /\ Becomes(m)
        /\ op' = "play"
        /\ ret' = NULL
        /\ plays' = plays + 1
        /\ userOps' = userOps + 1
        /\ faulted' = (faulted \/ m.err = "BackendError")
        /\ iter' = 1
        /\ manual' = [loop |-> loop, volume |-> volume,
                      time |-> IF time = NULL THEN now ELSE time]
        /\ lastUser' = "play"
        /\ UNCHANGED <<cutVars, data, built, duration, now>>

\* The arguments the user calls play() with: loop, volume, time (null is
\* the default, the current time)
PlayArgs ==
    {<<FALSE, One, NULL>>, <<TRUE, Rat(1, 2), NULL>>, <<TRUE, One, Add(now, One)>>}

PlayWith(fails) ==
    /\ built
    /\ plays < MaxPlays
    /\ userOps < MaxOps
    /\ \E args \in PlayArgs, fail \in fails :
            /\ Le(Add(IF args[3] = NULL THEN now ELSE args[3], duration),
                  Num(MaxTime))
            /\ UserPlay(args[1], args[2], args[3], fail)

Play == PlayWith(Fails)

\* play() when the backend accepts every call
PlayAccepted == PlayWith({NoFail})

\* sequencer.play() right after the construction from an input of the
\* documented format
PlayDefault ==
    /\ built
    /\ ~Malformed(data)
    /\ plays = 0
    /\ UserPlay(FALSE, One, NULL, NoFail)

\* sequencer.stop() called by the user
Stop ==
    /\ built
    /\ userOps < MaxOps
    /\ \E m \in {stop(M)} : Becomes(m)
    /\ op' = "stop"
    /\ ret' = NULL
    /\ userOps' = userOps + 1
    /\ lastUser' = "stop"
    /\ UNCHANGED <<cutVars, data, built, duration, now, plays, faulted, iter, manual>>

\* sequencer.currentTime(): a query, whose result the caller holds until
\* the next step
CurrentTime ==
    /\ built
    /\ ret = NULL
    /\ ret' = currentTime(M)
    /\ UNCHANGED <<cutVars, data, built, tracks, duration, startTime, now, sources, amps,
                   calls, err, op, pre, plays, userOps, faulted, iter, manual,
                   lastUser>>

\* The audio clock advances
Tick ==
    /\ built
    /\ Lt(now, Num(MaxTime))
    /\ now' = Add(now, One)
    /\ ret' = NULL
    /\ UNCHANGED <<cutVars, data, built, tracks, duration, startTime, sources, amps, calls,
                   err, op, pre, plays, userOps, faulted, iter, manual, lastUser>>

\* The backend has an ended event to deliver to source k of the reference
\* track: the source was started and has been halted or has reached its
\* scheduled stop, and the event was not delivered before
Due(k) ==
    LET src == sources[1][k]
    IN  /\ src.started
        /\ ~src.ended
        /\ \/ src.halted
           \/ src.stopAt # NULL /\ Ge(now, src.stopAt)

\* The backend delivers the ended event of source k of the reference
\* track: the handler found in onended, if any, runs
EndedWith(fails) ==
    /\ built
    /\ Len(tracks) > 0
    /\ \E k \in 1..Len(sources[1]), fail \in fails :
        /\ Due(k)
        /\ \E h \in {sources[1][k].onended} :
            /\ h = NULL => fail = NoFail /\ k = tracks[1].source
            /\ (h # NULL /\ h.loop) =>
                  /\ plays < MaxPlays
                  /\ Le(Add(Add(h.time, duration), duration), Num(MaxTime))
            /\ \E m \in {IF h = NULL THEN [M EXCEPT !.sources[1][k].ended = TRUE]
                         ELSE onended([M EXCEPT !.sources[1][k].ended = TRUE],
                                      h, fail)} :
                /\ Becomes(m)
                /\ plays' = IF h # NULL /\ m.startTime # NULL THEN plays + 1 ELSE plays
                /\ iter' = IF h # NULL /\ m.startTime # NULL THEN iter + 1 ELSE iter
                /\ faulted' = (faulted \/ m.err = "BackendError")
        /\ op' = "ended"
        /\ ret' = NULL
        /\ UNCHANGED <<cutVars, data, built, duration, now, userOps, manual, lastUser>>

Ended == EndedWith(Fails)

\* The delivery when the backend accepts every call
EndedAccepted == EndedWith({NoFail})

Next == Construct \/ Play \/ Stop \/ CurrentTime \/ Tick \/ Ended

Spec == Init /\ [][Next]_vars

\* A backend that accepts every call, whose clock runs and whose ended
\* events are delivered
NextFair == Construct \/ PlayAccepted \/ Stop \/ Tick \/ EndedAccepted

FairSpec == Init /\ [][NextFair]_vars /\ WF_vars(Tick) /\ WF_vars(EndedAccepted)

\* cutoff(curve, t): the array is changed in place
Cutoff ==
    /\ orig = <<>>
    /\ orig' = <<curve>>
    /\ curve' = cutoff(curve, cutT)
    /\ UNCHANGED <<cutT, data, built, tracks, duration, startTime, now, sources,
                   amps, calls, err, ret, op, pre, plays, userOps, faulted, iter,
                   manual, lastUser>>

NextCutoff == Cutoff

SpecCutoff == InitCutoff /\ [][NextCutoff]_vars

NextCompile == Construct \/ PlayDefault

SpecCompile == InitCompile /\ [][NextCompile]_vars

---------------------------------------------------------------------------
(* Properties.                                                             *)

\* The source and the handler the reference track holds now
RefSource ==
    IF Len(tracks) > 0 /\ tracks[1].source # 0
    THEN sources[1][tracks[1].source] ELSE NULL

RefHandler == IF RefSource = NULL THEN NULL ELSE RefSource.onended

\* The sources of track t that were started and neither halted nor
\* disconnected, and its ADSR nodes still connected to the track's chain
LiveSources(t) ==
    {k \in 1..Len(sources[t]) :
        sources[t][k].started /\ ~sources[t][k].halted /\ sources[t][k].connected}

ConnectedAmps(t) == {k \in 1..Len(amps[t]) : amps[t][k].connected}

TornDown == \A t \in 1..Len(tracks) : LiveSources(t) = {} /\ ConnectedAmps(t) = {}

Fresh(m) == [m EXCEPT !.calls = <<>>, !.err = "none"]

TeardownCalls == {"source.stop", "source.disconnect", "adsr.disconnect"}

\* C1: stop() is idempotent.  In every reachable state isPlaying() is
\* false after stop(), a second stop() right after it changes nothing and
\* issues no backend call, and so does a stop() in any state that is not
\* playing (before any play() in particular).
C1_StopIdempotent ==
    built =>
        \A m1 \in {stop(M)} :
            /\ ~isPlaying(m1)
            /\ stop(Fresh(m1)) = Fresh(m1)
            /\ ~isPlaying(M) => m1 = M

\* A stop() called when nothing was playing any more, after a playback
C1_Witness ==
    op = "stop" /\ ~pre /\ plays > 0 /\ calls = <<>> /\ err = "none"

\* C2: while the backend accepts every call, each track has at most one
\* live source and at most one connected ADSR node, exactly one of each
\* when isPlaying() and none otherwise; a play() leaves the sequencer
\* playing and issues all its teardown calls before its first creation.
C2_OneLiveNodePerTrack ==
    (built /\ ~faulted) =>
        /\ \A t \in 1..Len(tracks) :
            /\ LiveSources(t) = IF isPlaying(M) THEN {tracks[t].source} ELSE {}
            /\ ConnectedAmps(t) = IF isPlaying(M) THEN {tracks[t].adsr} ELSE {}
        /\ op = "play" =>
            /\ isPlaying(M)
            /\ \A i, j \in 1..Len(calls) :
                (calls[j] \in TeardownCalls /\ calls[i] \notin TeardownCalls)
                    => j < i

\* play() called while playing, on two tracks
C2_Witness ==
    /\ op = "play" /\ pre /\ ~faulted /\ isPlaying(M)
    /\ Len(tracks) = 2
    /\ \A t \in 1..2 : Len(sources[t]) = 2 /\ Cardinality(LiveSources(t)) = 1

\* C3: looping is anchored to the clock.  While a playback the user
\* started with loop = true at s0 goes on, its N-th iteration has
\* startTime s0 + (N-1) * duration, and the handler it installs loops with
\* the user's volume, whenever the ended events were delivered.
C3_LoopAnchored ==
    (built /\ isPlaying(M) /\ manual # NULL /\ manual.loop) =>
        /\ startTime = Add(manual.time, Mul(Num(iter - 1), duration))
        /\ RefHandler # NULL =>
            /\ RefHandler = [loop |-> TRUE, volume |-> manual.volume,
                             time |-> startTime]
            /\ RefSource.startAt = startTime

\* The third iteration, started by an ended event delivered late
C3_Witness ==
    /\ op = "ended" /\ isPlaying(M) /\ manual # NULL /\ manual.loop
    /\ iter = 3 /\ RefHandler # NULL
    /\ Gt(now, startTime)

\* C4: a stop() by the user cancels looping.  From the stop() on and until
\* the user's next play(), isPlaying() is false and no play() runs, also
\* when the backend delivers the ended event of the stopped source.
C4_StopCancelsLoop ==
    [][lastUser' = "stop" =>
          /\ startTime' = NULL
          /\ lastUser = "stop" => plays' = plays]_vars

\* The ended event of a looping playback's source, delivered after the
\* user's stop()
C4_Witness ==
    /\ op = "ended" /\ lastUser = "stop" /\ manual # NULL /\ manual.loop
    /\ RefSource # NULL /\ RefSource.ended /\ RefSource.halted
    /\ ~isPlaying(M)

\* A playback without loop whose play() completed: every track has its
\* source running and the reference source carries the handler
NonLoopPlayback ==
    /\ isPlaying(M)
    /\ RefHandler # NULL
    /\ ~RefHandler.loop
    /\ \A t \in 1..Len(tracks) :
        tracks[t].source \in LiveSources(t) /\ tracks[t].adsr \in ConnectedAmps(t)

\* C5: a playback without loop ends by itself.  Unless the user calls
\* play() or stop() again, the ended event of the reference source is
\* eventually delivered, and its delivery tears every track down, leaves
\* the sequencer idle and starts no further iteration.
C5_NaturalEnd ==
    /\ \A n \in 1..MaxOps :
        (NonLoopPlayback /\ userOps = n) ~> (~isPlaying(M) \/ userOps # n)
    /\ [][(NonLoopPlayback /\ ~RefSource.ended
             /\ sources'[1][tracks[1].source].ended)
          => (startTime' = NULL /\ TornDown' /\ plays' = plays /\ err' = "none"
              /\ op' = "ended")]_vars

\* A two-track playback without loop that ended by itself
C5_Witness ==
    /\ op = "ended" /\ ~isPlaying(M) /\ pre /\ err = "none"
    /\ manual # NULL /\ ~manual.loop /\ lastUser = "play"
    /\ Len(tracks) = 2 /\ TornDown
    /\ RefSource # NULL /\ RefSource.ended

\* The input with every data array cut to its longest prefix whose length
\* is a multiple of four
Truncated(d) ==
    [d EXCEPT !.tracks =
        [t \in 1..Len(d.tracks) |->
            [d.tracks[t] EXCEPT !.data = SubSeq(@, 1, 4 * (Len(@) \div 4))]]]

C7_StopNeverFails == op = "stop" => err = "none"

\* C8 as stated: while the sequencer is idle, currentTime() returns no
\* number
C8_IdleRaises == ~isPlaying(M) => ret = NULL

\* C8: currentTime() never fails.  While playing it returns the backend
\* clock minus the start time of the current iteration; while idle it
\* returns the backend clock itself (startTime is null, which the
\* subtraction takes as 0).
C8_CurrentTime ==
    ret # NULL =>
        ret = IF isPlaying(M) THEN Sub(now, startTime) ELSE now

\* currentTime() has returned the clock after a playback ended by itself
C8_Witness ==
    /\ ret # NULL /\ ~isPlaying(M) /\ op = "ended" /\ plays > 0
    /\ ret = now /\ Gt(now, Zero)

\* time + duration + release + trailing gap of every compiled note
NoteEnds ==
    {Add(Add(Add(tracks[t].notes[k].time, tracks[t].notes[k].duration),
             data.tracks[t].adsr[4]),
         data.gaps[2]) :
        <<t, k>> \in UNION {{t} \X (1..Len(tracks[t].notes)) : t \in 1..Len(tracks)}}

\* C9: the duration of a sequence with at least one note is the maximum
\* over all notes of all tracks of start + duration + release + trailing
\* gap; play() leaves it alone and schedules the stop of every track's
\* source at startTime + duration.
C9_Duration ==
    (built /\ ~Malformed(data) /\ NoteEnds # {}) =>
        /\ duration \in NoteEnds
        /\ \A e \in NoteEnds : Le(e, duration)
        /\ op = "play" =>
              \A t \in 1..Len(tracks) :
                  sources[t][tracks[t].source].stopAt = Add(startTime, duration)

\* Two tracks, the second of which ends last, are playing
C9_Witness ==
    /\ op = "play" /\ Len(tracks) = 2 /\ duration = Num(2) /\ startTime = Zero
    /\ \A t \in 1..2 : sources[t][tracks[t].source].stopAt = Num(2)
    /\ Cardinality(NoteEnds) = 2

\* The input is one track of one note with attack = decay = release = 0
FlatSingleNote ==
    /\ built /\ ~Malformed(data)
    /\ Len(data.tracks) = 1 /\ Len(data.tracks[1].data) = 4
    /\ data.tracks[1].adsr[1] = Zero /\ data.tracks[1].adsr[2] = Zero
    /\ data.tracks[1].adsr[4] = Zero

\* The three points C10 names, for the compiled note n
FlatCurve(n, sustain) ==
    <<<<n.time, Mul(sustain, n.volume), FALSE>>,
      <<Add(n.time, n.duration), Mul(sustain, n.volume), FALSE>>,
      <<Add(n.time, n.duration), Zero, TRUE>>>>

\* C10 as stated: the gain curve of a single flat note is the three points
C10_FlatNoteAnyDuration ==
    FlatSingleNote =>
        tracks[1].gCurve = FlatCurve(tracks[1].notes[1], data.tracks[1].adsr[3])

\* C10: the gain curve of a single note with attack = decay = release = 0
\* is the three points when the note's duration is positive; when it is
\* 0 the cutoff removes the sustain point and the curve is the single
\* point (start, 0, ramp).  The sequence duration is start + duration +
\* trailing gap in both cases.
C10_FlatNote ==
    FlatSingleNote =>
        \A n \in {tracks[1].notes[1]} :
            /\ n.time = Add(data.gaps[1],
                            Div(Num(data.tracks[1].data[1]), pps(data)))
            /\ n.duration = Div(Num(data.tracks[1].data[2]), pps(data))
            /\ tracks[1].gCurve =
                    IF Gt(n.duration, Zero)
                    THEN FlatCurve(n, data.tracks[1].adsr[3])
                    ELSE <<<<n.time, Zero, TRUE>>>>
            /\ duration = Add(Add(n.time, n.duration), data.gaps[2])

\* The example: data = [0, 4, 69, 127], one pulse a second, adsr =
\* [0, 0, 1, 0]
C10_Witness ==
    /\ built /\ data = ExampleInput
    /\ tracks[1].gCurve = <<<<Zero, One, FALSE>>, <<Num(4), One, FALSE>>,
                            <<Num(4), Zero, TRUE>>>>
    /\ duration = Num(4)

\* data[1] + ... + data[k] of a data array
RECURSIVE DeltaSum(_, _)
DeltaSum(noteData, k) ==
    IF k = 0 THEN 0 ELSE DeltaSum(noteData, k - 1) + noteData[k]

\* The input has a positive tempo (its data arrays may have any length)
PositiveTempo == data.bpm > 0 /\ data.ppqn > 0

\* C11: a data array of length len holds n = floor((len + 0.5) / 4)
\* notes, which is floor(len / 4); note i takes its delta from data[i],
\* its duration from data[i + n], its MIDI number from data[i + 2n] and
\* its velocity from data[i + 3n]; its start is the leading gap plus the
\* sum of the deltas up to it over pps, so the notes are ordered by start.
C11_NoteDecoding ==
    (built /\ PositiveTempo) =>
        \A t \in 1..Len(tracks) :
            \A d \in {data.tracks[t].data} :
                \A n \in {Len(tracks[t].notes)} :
                    /\ n = Len(d) \div 4
                    /\ 8 * n <= 2 * Len(d) + 1 /\ 2 * Len(d) + 1 < 8 * (n + 1)
                    /\ \A i \in 1..n :
                        /\ tracks[t].notes[i].time =
                              Add(data.gaps[1],
                                  Div(Num(DeltaSum(d, i)), pps(data)))
                        /\ tracks[t].notes[i].duration = Div(Num(d[i + n]), pps(data))
                        /\ tracks[t].notes[i].midi = Num(d[i + 2 * n])
                        /\ tracks[t].notes[i].volume =
                              Sub(One, Mul(Sub(One, Div(Num(d[i + 3 * n]), Num(127))),
                                           data.tracks[t].mixer[2]))
                        /\ i > 1 => Le(tracks[t].notes[i - 1].time,
                                       tracks[t].notes[i].time)

\* Two notes were decoded, the second one pulse after the first, at a
\* leading gap of one second
C11_Witness ==
    /\ built /\ op = "construct" /\ data.bpm = 60 /\ data.ppqn = 1
    /\ data.gaps[1] = One
    /\ data.tracks[1].data = <<0, 1, 2, 0, 69, 57, 127, 64>>
    /\ Len(tracks[1].notes) = 2
    /\ tracks[1].notes[2].time = Num(2)
    /\ tracks[1].notes[2].duration = Zero
    /\ tracks[1].notes[2].midi = Num(57)

\* cutoff has been called; Before is the array it was given and CutIndex
\* the 1-based index of the first point of Before with time >= t (0: none)
Cut == Len(orig) = 1

Before == orig[1]

CutIndex == findIndex(Before, cutT, 1)

\* Where t lies between the times a and b, clamped to [0, 1]
Clamped(a, b, t) ==
    With(Div(Sub(t, a), Sub(b, a)),
         LAMBDA x : IF Lt(x, Zero) THEN Zero ELSE IF Gt(x, One) THEN One ELSE x)

\* C12 as stated: the point cutoff appends is a ramp
C12_EndsWithRamp ==
    (Cut /\ Ordered(Before) /\ CutIndex > 1) => curve[Len(curve)][3] = TRUE

\* C12: on a time-ordered curve whose first point with time >= t has a
\* predecessor, cutoff removes that point and every later one and appends
\* exactly one point at time t.  Its ramp flag is the removed point's
\* flag, not always true: its value is the predecessor's value when the
\* removed point was a step, and the value at t on the line from the
\* predecessor to the removed point when it was a ramp.
C12_CutInterpolates ==
    (Cut /\ Ordered(Before) /\ CutIndex > 1) =>
        \A k \in {CutIndex} :
            /\ Len(curve) = k
            /\ SubSeq(curve, 1, k - 1) = SubSeq(Before, 1, k - 1)
            /\ curve[k][1] = cutT
            /\ curve[k][3] = Before[k][3]
            /\ curve[k][2] =
                 IF Before[k][3]
                 THEN Add(Before[k - 1][2],
                          Mul(Sub(Before[k][2], Before[k - 1][2]),
                              Clamped(Before[k - 1][1], Before[k][1], cutT)))
                 ELSE Before[k - 1][2]

\* A ramp from (0, 0) to (1, 1) was cut at 1/2
C12_Witness ==
    /\ Cut /\ cutT = Rat(1, 2)
    /\ Before = <<<<Zero, Zero, FALSE>>, <<One, One, TRUE>>>>
    /\ curve = <<<<Zero, Zero, FALSE>>, <<Rat(1, 2), Rat(1, 2), TRUE>>>>

\* C13: cutoff leaves a curve without a point at or after t as it is
C13_NoPointNoChange ==
    (Cut /\ \A k \in 1..Len(Before) : ~Ge(Before[k][1], cutT)) => curve = Before

\* A curve of two points, both before t, was given to cutoff
C13_Witness ==
    /\ Cut /\ Len(Before) = 2 /\ CutIndex = 0 /\ curve = Before
    /\ Lt(Before[2][1], cutT)

\* C14 as stated: the point at exactly t is kept as it was
C14_KeepsExactPoint ==
    (Cut /\ Ordered(Before) /\ CutIndex > 1 /\ Before[CutIndex][1] = cutT) =>
        curve = SubSeq(Before, 1, CutIndex)

\* C14: when the first point with time >= t lies exactly at t and has a
\* predecessor, the result is the points before it followed by exactly
\* one point at t with the flag of the original point; its value is the
\* original point's when that was a ramp, and the predecessor's when it
\* was a step.
C14_ExactPoint ==
    (Cut /\ Ordered(Before) /\ CutIndex > 1 /\ Before[CutIndex][1] = cutT) =>
        \A k \in {CutIndex} :
            curve = Append(SubSeq(Before, 1, k - 1),
                           <<cutT,
                             IF Before[k][3] THEN Before[k][2] ELSE Before[k - 1][2],
                             Before[k][3]>>)

\* A step from 0 to 1 at time 1 was cut at 1: the new point steps to 0
C14_Witness ==
    /\ Cut /\ cutT = One
    /\ Before = <<<<Zero, Zero, FALSE>>, <<One, One, FALSE>>>>
    /\ curve = <<<<Zero, Zero, FALSE>>, <<One, Zero, FALSE>>>>

\* Every curve the constructor built
Curves ==
    UNION {{tracks[t].gCurve, tracks[t].fCurve} : t \in 1..Len(tracks)}

\* C15: for an input with non-negative gaps, deltas, durations and
\* envelope times and a portamento in [0, 1], every compiled gain curve
\* and frequency curve is in order of time, and no point at time Infinity
\* remains: the cutoff at a note's end always removes the open hold.
C15_CurvesOrdered ==
    (built /\ PositiveTempo) =>
        \A c \in Curves :
            /\ Ordered(c)
            /\ \A k \in 1..Len(c) : IsFinite(c[k][1])

\* Two overlapping notes with attack, decay and release and a portamento
\* of 1/2 were compiled: the first note's tail was cut before the second
C15_Witness ==
    /\ built /\ op = "construct" /\ data.bpm = 60 /\ data.gaps = <<Zero, Zero>>
    /\ Len(data.tracks) = 1
    /\ data.tracks[1].data = <<0, 1, 2, 3, 69, 69, 127, 0>>
    /\ data.tracks[1].adsr = <<One, One, Rat(1, 2), Num(2)>>
    /\ data.tracks[1].portamento = Rat(1, 2)
    /\ data.tracks[1].cutoffDuration = Rat(1, 2)
    /\ Len(tracks[1].gCurve) = 8
    /\ tracks[1].gCurve[2] = <<Rat(1, 2), Rat(1, 2), TRUE>>
    /\ tracks[1].gCurve[3] = <<Sub(One, Div(Eps, Num(2))), Zero, TRUE>>
    /\ tracks[1].gCurve[7] = <<Num(4), Rat(1, 4), FALSE>>
    /\ tracks[1].gCurve[8] = <<Num(6), Zero, TRUE>>
    /\ tracks[1].fCurve = <<<<Zero, Num(440), FALSE>>, <<Rat(1, 2), Num(440), FALSE>>,
                            <<One, Num(440), TRUE>>>>

\* The notes after the first of every track, as <<track, note>> (1-based)
LaterNotes ==
    UNION {{t} \X (2..Len(tracks[t].notes)) : t \in 1..Len(tracks)}

\* gCurve right after the first k notes of track t have been compiled
CurveAfter(t, k) == noteLoop(data, data.tracks[t], Zero, k).gCurve

\* The time the earlier notes are cut at for note i of track t, and the
\* time of the ramp point to 0 before it
OverlapTime(t, i) ==
    Sub(tracks[t].notes[i].time, Max(data.tracks[t].cutoffDuration, Eps))

RampTime(t, i) == Max(Zero, Sub(tracks[t].notes[i].time, Div(Eps, Num(2))))

\* How many points of a curve lie before time x
StartsBefore(c, x) == Cardinality({k \in 1..Len(c) : Lt(c[k][1], x)})

\* From the curve prev of the earlier notes, cur keeps the n points before
\* time x and, when some but not all points were kept, one truncation
\* point at x that is not earlier than the point before it; then cur has
\* the ramp point (r, 0, ramp), and then at least one point of the new
\* note, none earlier than r
TailCut(prev, cur, x, r) ==
    \E n \in {StartsBefore(prev, x)} :
        \E m \in {IF 0 < n /\ n < Len(prev) THEN n + 1 ELSE n} :
            /\ Len(cur) > m + 1
            /\ SubSeq(cur, 1, n) = SubSeq(prev, 1, n)
            /\ m > n => cur[m][1] = x /\ Le(cur[n][1], x)
            /\ \A k \in 1..m : Le(cur[k][1], x)
            /\ cur[m + 1] = <<r, Zero, TRUE>>
            /\ \A k \in (m + 2)..Len(cur) : Le(r, cur[k][1])

\* C16 as stated: the overlap handling leaves this shape for every note
\* after the first
C16_EveryLaterNote ==
    (built /\ PositiveTempo) =>
        \A n \in LaterNotes :
            TailCut(CurveAfter(n[1], n[2] - 1), CurveAfter(n[1], n[2]),
                    OverlapTime(n[1], n[2]), RampTime(n[1], n[2]))

\* C16: for every note i > 0 that starts after time 0 or has a positive
\* duration, right after note i has been compiled the gain curve has no
\* point of an earlier note later than start - max(cutoffDuration, 1e-6),
\* the truncation point (if any) is not earlier than the point before it,
\* and a ramp point with value 0 at max(0, start - 1e-6 / 2) precedes the
\* points of note i.  A note i > 0 that starts at time 0 with duration 0
\* leaves only its release point: the cutoff at its end removes the ramp
\* point with the rest of the curve.
C16_OverlapCut ==
    (built /\ PositiveTempo) =>
        \A n \in LaterNotes :
            \A note \in {tracks[n[1]].notes[n[2]]} :
                IF note.time = Zero /\ note.duration = Zero
                THEN CurveAfter(n[1], n[2]) =
                        <<<<data.tracks[n[1]].adsr[4], Zero, TRUE>>>>
                ELSE TailCut(CurveAfter(n[1], n[2] - 1), CurveAfter(n[1], n[2]),
                             OverlapTime(n[1], n[2]), RampTime(n[1], n[2]))

\* A flat note of two seconds at time 0 was cut at 1/2 for a second note
\* at time 1: the step to its end became a step at 1/2, and the ramp to 0
\* lies half of 1e-6 before the second note
C16_Witness ==
    /\ built /\ op = "construct" /\ data.bpm = 60 /\ data.gaps = <<Zero, Zero>>
    /\ Len(data.tracks) = 1
    /\ data.tracks[1].data = <<0, 1, 2, 3, 69, 69, 127, 0>>
    /\ data.tracks[1].adsr = <<Zero, Zero, One, Zero>>
    /\ data.tracks[1].cutoffDuration = Rat(1, 2)
    /\ CurveAfter(1, 1) = <<<<Zero, One, FALSE>>, <<Num(2), One, FALSE>>,
                            <<Num(2), Zero, TRUE>>>>
    /\ tracks[1].gCurve = CurveAfter(1, 2)
    /\ SubSeq(tracks[1].gCurve, 1, 4) =
          <<<<Zero, One, FALSE>>, <<Rat(1, 2), One, FALSE>>,
            <<Sub(One, Div(Eps, Num(2))), Zero, TRUE>>,
            <<One, Rat(1, 2), FALSE>>>>

\* The points C17 names for note i (1-based) of track t
FreqPoints(t, i) ==
    LET n == tracks[t].notes[i]
    IN  IF i > 1 /\ Gt(data.tracks[t].portamento, Zero)
        THEN LET last == tracks[t].notes[i - 1]
             IN  <<<<Sub(n.time, Mul(Sub(n.time, last.time),
                                     data.tracks[t].portamento)),
                     last.frequency, FALSE>>,
                   <<n.time, n.frequency, TRUE>>>>
        ELSE <<<<n.time, n.frequency, FALSE>>>>

\* The points of notes 1..k of track t, in order
RECURSIVE FreqCurve(_, _)
FreqCurve(t, k) ==
    IF k = 0 THEN <<>> ELSE FreqCurve(t, k - 1) \o FreqPoints(t, k)

\* C17: the frequency curve of a track is, note by note, one step point
\* (start, frequency, step) for the first note and for every note when
\* portamento = 0, and for a later note with portamento p > 0 the step
\* point (start - (start - previous start) * p, previous frequency, step)
\* followed by the ramp point (start, frequency, ramp); the step point's
\* time lies between the two notes' starts.
C17_FrequencyCurve ==
    (built /\ PositiveTempo) =>
        \A t \in 1..Len(tracks) :
            /\ tracks[t].fCurve = FreqCurve(t, Len(tracks[t].notes))
            /\ \A i \in 2..Len(tracks[t].notes) :
                  \A h \in {FreqPoints(t, i)[1][1]} :
                      /\ Le(tracks[t].notes[i - 1].time, h)
                      /\ Le(h, tracks[t].notes[i].time)
            /\ \A i \in 1..Len(tracks[t].notes) :
                  tracks[t].notes[i].frequency =
                      frequency(tracks[t].notes[i].midi)

\* A note an octave up two seconds after the first, portamento 1/2: the
\* pitch is held until second 1 and then slides
C17_Witness ==
    /\ built /\ op = "construct" /\ data.bpm = 60 /\ data.gaps = <<Zero, Zero>>
    /\ Len(data.tracks) = 1
    /\ data.tracks[1].data = <<0, 2, 2, 1, 69, 81, 127, 127>>
    /\ data.tracks[1].portamento = Rat(1, 2)
    /\ tracks[1].fCurve = <<<<Zero, Num(440), FALSE>>, <<One, Num(440), FALSE>>,
                            <<Num(2), Num(880), TRUE>>>>

\* The sources that carry an onended handler, as <<track, source>>
Handlers ==
    UNION {{t} \X {k \in 1..Len(sources[t]) : sources[t][k].onended # NULL} :
           t \in 1..Len(sources)}

\* C18: at most one source of all tracks carries an onended handler, and
\* it is the source the first track holds now, started by the current
\* play() and not torn down; the sequencer is then playing.  A handler an
\* earlier play() installed is detached before the next one is installed.
C18_OneHandler ==
    built =>
        /\ Cardinality(Handlers) <= 1
        /\ \A c \in Handlers :
              /\ c[1] = 1
              /\ c[2] = tracks[1].source
              /\ c[2] \in LiveSources(1)
              /\ startTime # NULL
              /\ sources[1][c[2]].onended.time = startTime

\* A second play() of two tracks has returned: the first source of the
\* first track has lost its handler, and the second one carries the only
\* handler
C18_Witness ==
    /\ op = "play" /\ err = "none" /\ Len(tracks) = 2
    /\ Len(sources[1]) = 2 /\ Len(sources[2]) = 2
    /\ sources[1][1].onended = NULL
    /\ sources[1][1].started
    /\ tracks[1].source = 2
    /\ Handlers = {<<1, 2>>}

\* The gain curve, frequency curve and notes of a compiled track
Compiled(track) ==
    [gCurve |-> track.gCurve, fCurve |-> track.fCurve, notes |-> track.notes,
     wave |-> track.wave]

\* The times of the events scheduled on a parameter are the times of the
\* curve's points after time0, ramp for ramp
Relative(events, c, time0) ==
    /\ Len(events) = Len(c)
    /\ \A k \in 1..Len(c) :
          /\ events[k].at = Add(time0, c[k][1])
          /\ events[k].ramp = c[k][3]

\* this.duration and the compiled tracks are as the constructor built
\* them
Kept ==
    \A c \in {construct(data)} :
        /\ duration = c.duration
        /\ Len(tracks) = Len(c.tracks)
        /\ \A t \in 1..Len(tracks) : Compiled(tracks[t]) = Compiled(c.tracks[t])

\* A step in which play() ran to its end, called by the user or by the
\* onended handler of a loop, has scheduled the events of every track
\* from the curves as they were before the step, relative to the new
\* startTime
ScheduledAfresh ==
    (built /\ plays' = plays + 1 /\ err' = "none") =>
        \A t \in 1..Len(tracks) :
            /\ Relative(amps'[t][tracks'[t].adsr].events, tracks[t].gCurve,
                        startTime')
            /\ tracks[t].wave # "noise" =>
                  Relative(sources'[t][tracks'[t].source].events,
                           tracks[t].fCurve, startTime')

\* C19: play(), stop(), isPlaying(), currentTime() and the onended handler
\* leave this.duration and every track's gain curve, frequency curve and
\* notes as the constructor built them, and every play() that runs to its
\* end, a loop's re-play included, schedules the events of every track at
\* the times of the points of its curves after startTime.
C19_CompiledStateKept ==
    /\ [](built => Kept)
    /\ [][ScheduledAfresh]_vars

\* A loop of two tracks has been re-played at second 2: the release ramp
\* of the first track, one second after the start in the curve, was
\* scheduled at second 1 by the first play() and at second 3 by the second
C19_Witness ==
    /\ op = "ended" /\ err = "none" /\ startTime = Num(2) /\ Len(tracks) = 2
    /\ duration = Num(2)
    /\ tracks[1].gCurve = <<<<One, Zero, TRUE>>>>
    /\ tracks[1].adsr = 2
    /\ amps[1][1].events = <<[ramp |-> TRUE, value |-> Eps, at |-> One]>>
    /\ amps[1][2].events = <<[ramp |-> TRUE, value |-> Eps, at |-> Num(3)]>>

\* Every event scheduled so far, on the gain of an ADSR node or on the
\* frequency of a source
Events ==
    UNION {{amps[t][k].events[j] :
                <<k, j>> \in UNION {{k} \X (1..Len(amps[t][k].events)) :
                                    k \in 1..Len(amps[t])}}
           \cup {sources[t][k].events[j] :
                <<k, j>> \in UNION {{k} \X (1..Len(sources[t][k].events)) :
                                    k \in 1..Len(sources[t])}} :
           t \in 1..Len(tracks)}

\* C20: for an input with non-negative gaps, deltas, durations and
\* envelope times, every point of every compiled curve has a time >= 0;
\* where the overlap cutoff time of a note is negative, no point lies at
\* it.  So the play() after the construction schedules no event before
\* its startTime.
C20_NoPointBeforeStart ==
    (built /\ PositiveTempo) =>
        /\ \A c \in Curves : \A k \in 1..Len(c) : Ge(c[k][1], Zero)
        /\ \A n \in LaterNotes :
              \A x \in {OverlapTime(n[1], n[2])} :
                  Lt(x, Zero) =>
                      \A j \in 1..Len(CurveAfter(n[1], n[2])) :
                          CurveAfter(n[1], n[2])[j][1] # x
        /\ (op = "play" /\ err = "none") =>
              \A e \in Events : Ge(e.at, startTime)

\* Two notes that start together at time 0 were compiled and played: the
\* overlap cutoff of the second, at a negative time, removed the first
\* note's points and appended none, and the first event is at startTime
C20_Witness ==
    /\ op = "play" /\ err = "none" /\ startTime = Zero
    /\ data.bpm = 60 /\ data.gaps = <<Zero, Zero>> /\ Len(data.tracks) = 1
    /\ data.tracks[1].data = <<0, 0, 2, 2, 69, 69, 127, 127>>
    /\ data.tracks[1].adsr = <<Zero, Zero, One, Zero>>
    /\ Lt(OverlapTime(1, 2), Zero)
    /\ tracks[1].gCurve = <<<<Zero, Zero, TRUE>>, <<Zero, One, FALSE>>,
                            <<Num(2), One, FALSE>>, <<Num(2), Zero, TRUE>>>>
    /\ amps[1][1].events[1].at = Zero

=============================================================================
